---- MODULE Spec2Model ----
(***************************************************************************)
(* Diagnostics provider and endpoint of the frontend HUD templates:        *)
(*   - the Vite plugin      (templates/vite-hud-plugin.ts)                 *)
(*   - the Webpack plugin   (templates/vue-hud.vue, lines 598-782)         *)
(* A behaviour is one run of one build tool on one project.  JavaScript    *)
(* strings that the code inspects character by character (versions, URLs)  *)
(* are sequences of characters/tokens; other strings are TLA+ strings.     *)
(***************************************************************************)
EXTENDS Integers, Sequences, FiniteSets, TLC

(* ------------------------------ bounds --------------------------------- *)
\* largest module count an event may carry
MaxModules == 2
\* largest number of errors one Webpack compilation may report
MaxErrors == 2
\* number of events of each kind (connection, error) in a run
MaxEvents == 2
\* number of times hudDevServerMiddleware() is mounted
MaxMounted == 2
\* the clock (milliseconds) stops advancing here
MaxClock == 3400
\* the clock advances in steps of this many milliseconds
ClockStep == 700
\* a process may create the plugin this many milliseconds after the epoch
BootTime == 1250
\* times the configuration is resolved again in one process
MaxRestarts == 1
\* times the consumer component is mounted in one page
MaxMounts == 2
\* /__hud requests a page issues
MaxPolls == 3
\* times the HMR effect of a mounted component runs again
MaxReruns == 1
\* HMR events of each kind counted in a page
MaxHmrCount == 2
\* mouseup listeners on window at a time
MaxDragListeners == 2

(* --------------------------- JavaScript values ------------------------- *)
Undefined == [t |-> "undefined"]
Str(chars) == [t |-> "string", v |-> chars]
Num(n) == [t |-> "number", n |-> n]

\* JavaScript truthiness of a manifest value
Truthy(val) ==
    CASE val.t = "undefined" -> FALSE
      [] val.t = "string" -> val.v # <<>>
      [] val.t = "number" -> val.n # 0

\* the sentinel '--'
Sentinel == <<"-", "-">>

\* deps[key] of a plain object: undefined when the key is absent
Get(obj, key) == IF key \in DOMAIN obj THEN obj[key] ELSE Undefined

\* { ...a, ...b }: the keys of both, b's value where both have the key
Spread(a, b) == [k \in DOMAIN a \cup DOMAIN b |-> IF k \in DOMAIN b THEN b[k] ELSE a[k]]

\* the empty object {}
EmptyObject == [k \in {} |-> Undefined]

\* s.replace(/[\^~]/, ''): the first '^' or '~' of s is removed
RECURSIVE replaceCaretTilde(_)
replaceCaretTilde(s) ==
    IF s = <<>> THEN <<>>
    ELSE IF Head(s) \in {"^", "~"} THEN Tail(s)
    ELSE <<Head(s)>> \o replaceCaretTilde(Tail(s))

(* ------------------------- project detection --------------------------- *)
\* A manifest (package.json) is missing, unparsable, or parsed to an object
\* with dependencies and devDependencies.
ReadOk(pkg) == pkg.kind = "ok"

\* vite-hud-plugin.ts detectFramework: [name, version]; version is the raw
\* manifest value (not necessarily a string)
detectFramework(pkg) ==
    IF ~ReadOk(pkg) THEN [name |-> "vite", version |-> Str(Sentinel)]
    ELSE LET deps == Spread(pkg.dependencies, pkg.devDependencies) IN
        CASE Truthy(Get(deps, "@sveltejs/kit")) ->
                [name |-> "sveltekit", version |-> Get(deps, "@sveltejs/kit")]
          [] Truthy(Get(deps, "nuxt")) -> [name |-> "nuxt", version |-> Get(deps, "nuxt")]
          [] Truthy(Get(deps, "next")) -> [name |-> "nextjs", version |-> Get(deps, "next")]
          [] Truthy(Get(deps, "vue")) -> [name |-> "vue", version |-> Get(deps, "vue")]
          [] Truthy(Get(deps, "react")) -> [name |-> "react", version |-> Get(deps, "react")]
          [] OTHER -> [name |-> "vite", version |-> Str(Sentinel)]

\* webpack plugin detectFramework
detectFramework_webpack(pkg) ==
    IF ~ReadOk(pkg) THEN [name |-> "webpack", version |-> Str(Sentinel)]
    ELSE LET deps == Spread(pkg.dependencies, pkg.devDependencies) IN
        CASE Truthy(Get(deps, "react-scripts")) ->
                [name |-> "cra", version |-> Get(deps, "react-scripts")]
          [] Truthy(Get(deps, "next")) -> [name |-> "nextjs", version |-> Get(deps, "next")]
          [] Truthy(Get(deps, "react")) -> [name |-> "react", version |-> Get(deps, "react")]
          [] Truthy(Get(deps, "vue")) -> [name |-> "vue", version |-> Get(deps, "vue")]
          [] OTHER -> [name |-> "webpack", version |-> Str(Sentinel)]

\* the lockfiles in the order the loop tries them, and their managers
files == <<"bun.lockb", "yarn.lock", "pnpm-lock.yaml", "package-lock.json">>
managers == <<"bun", "yarn", "pnpm", "npm">>

\* the loop of detectPackageManager from index i on: the manager of the first
\* lockfile whose read succeeds, 'npm' when the loop runs out
RECURSIVE packageManagerFrom(_, _)
packageManagerFrom(lockfiles, i) ==
    IF i > Len(files) THEN "npm"
    ELSE IF files[i] \in lockfiles THEN managers[i]
    ELSE packageManagerFrom(lockfiles, i + 1)

\* a variant of detectPackageManager that tries package-lock.json before
\* pnpm-lock.yaml
detectPackageManager_npmBeforePnpm(lockfiles) ==
    IF "package-lock.json" \in lockfiles /\ lockfiles \cap {"bun.lockb", "yarn.lock"} = {}
    THEN "npm"
    ELSE packageManagerFrom(lockfiles, 1)

detectPackageManager(lockfiles) == packageManagerFrom(lockfiles, 1)

detectPackageManager_webpack(lockfiles) == packageManagerFrom(lockfiles, 1)

\* the files readFileSync is called on by detectPackageManager
RECURSIVE lockfileReadsFrom(_, _)
lockfileReadsFrom(lockfiles, i) ==
    IF i > Len(files) THEN {}
    ELSE IF files[i] \in lockfiles THEN {files[i]}
    ELSE {files[i]} \cup lockfileReadsFrom(lockfiles, i + 1)

\* detectRuntime: Bun when process.versions.bun is set
detectRuntime(proc) ==
    IF proc.bun # "" THEN [runtime |-> "bun", version |-> proc.bun]
    ELSE [runtime |-> "node", version |-> proc.version]

(* --------------------------- static snapshot --------------------------- *)
\* vite-hud-plugin.ts EMPTY_DIAGNOSTICS
EMPTY_DIAGNOSTICS ==
    [ framework |-> "", frameworkVersion |-> <<>>, viteVersion |-> "", nodeVersion |-> "",
      runtime |-> "", runtimeVersion |-> "", packageManager |-> "", port |-> 0,
      host |-> "", https |-> FALSE, base |-> "/", mode |-> "production",
      envPrefix |-> <<>>, plugins |-> <<>>, cliFlags |-> <<>>, moduleCount |-> 0,
      resolvedAliases |-> EmptyObject ]

\* argv.slice(2)
slice2(argv) == SubSeq(argv, 3, Len(argv))

\* config.server.host: a string is kept, another truthy value is '0.0.0.0'
viteHost(host) ==
    IF host.t = "string" THEN host.s
    ELSE IF host.t = "boolean" /\ host.b THEN "0.0.0.0" ELSE "localhost"

\* config.envPrefix: an array is kept, a string is wrapped, absent is ['VITE_']
viteEnvPrefix(envPrefix) ==
    IF envPrefix.t = "array" THEN envPrefix.a
    ELSE IF envPrefix.t = "string" /\ envPrefix.s # "" THEN <<envPrefix.s>> ELSE <<"VITE_">>

\* Object.fromEntries of the aliases whose find is a string (a later entry
\* with the same key wins)
RECURSIVE fromEntries(_)
fromEntries(alias) ==
    IF alias = <<>> THEN EmptyObject
    ELSE LET rest == fromEntries(SubSeq(alias, 1, Len(alias) - 1))
             last == alias[Len(alias)]
         IN IF last.findIsString THEN Spread(rest, (last.find :> last.replacement)) ELSE rest

\* configResolved throws (TypeError) when the detected version is not a string
versionIsString(fw) == fw.version.t = "string"

\* the object configResolved assigns to `diagnostics` (version is a string)
viteDiagnostics(cfg, project, proc) ==
    LET fw == detectFramework(project.pkg)
        rt == detectRuntime(proc)
    IN [ framework |-> fw.name,
         frameworkVersion |-> replaceCaretTilde(fw.version.v),
         viteVersion |-> IF cfg.VITE_VERSION # "" THEN cfg.VITE_VERSION ELSE "--",
         nodeVersion |-> proc.version,
         runtime |-> rt.runtime,
         runtimeVersion |-> rt.version,
         packageManager |-> detectPackageManager(project.lockfiles),
         port |-> IF cfg.port # 0 THEN cfg.port ELSE 5173,
         host |-> viteHost(cfg.host),
         https |-> cfg.https,
         base |-> cfg.base,
         mode |-> cfg.mode,
         envPrefix |-> viteEnvPrefix(cfg.envPrefix),
         plugins |-> cfg.plugins,
         cliFlags |-> slice2(proc.argv),
         moduleCount |-> 0,
         resolvedAliases |-> fromEntries(cfg.alias) ]

\* parseInt(s, 10) of a string of decimal digits
RECURSIVE parseInt10(_)
parseInt10(s) ==
    IF s = <<>> THEN 0
    ELSE 10 * parseInt10(SubSeq(s, 1, Len(s) - 1)) + s[Len(s)]

\* plugins?.map(p => p?.constructor?.name).filter(n => !!n && n !== 'Object')
RECURSIVE pluginNames(_)
pluginNames(plugins) ==
    IF plugins = <<>> THEN <<>>
    ELSE IF Head(plugins) \notin {"", "Object"}
         THEN <<Head(plugins)>> \o pluginNames(Tail(plugins))
         ELSE pluginNames(Tail(plugins))

\* the object HudWebpackPlugin.apply builds, devServer overrides included
webpackDiagnostics(compiler, project, proc) ==
    LET fw == detectFramework_webpack(project.pkg)
        rt == detectRuntime(proc)
        dev == compiler.devServer
        hasDev == dev.t = "object"
    IN [ framework |-> fw.name,
         frameworkVersion |-> replaceCaretTilde(fw.version.v),
         webpackVersion |-> IF compiler.version # "" THEN compiler.version ELSE "--",
         nodeVersion |-> proc.version,
         runtime |-> rt.runtime,
         runtimeVersion |-> rt.version,
         packageManager |-> detectPackageManager_webpack(project.lockfiles),
         port |-> IF hasDev /\ dev.port # 0 THEN dev.port
                  ELSE parseInt10(IF proc.PORT # <<>> THEN proc.PORT ELSE <<3, 0, 0, 0>>),
         host |-> IF hasDev /\ dev.host # "" THEN dev.host
                  ELSE IF proc.HOST # "" THEN proc.HOST ELSE "localhost",
         https |-> hasDev /\ dev.https,
         base |-> IF compiler.publicPath # "" THEN compiler.publicPath ELSE "/",
         mode |-> "development",
         plugins |-> pluginNames(compiler.plugins),
         cliFlags |-> slice2(proc.argv) ]

(* ------------------------------ inputs --------------------------------- *)
\* project files: the parsed manifest and the lockfiles present
Projects ==
    { [ pkg |-> [kind |-> "ok",
                 dependencies |-> ("vue" :> Str(<<"^", "3", ".", "4">>)),
                 devDependencies |-> ("nuxt" :> Str(<<"~", "3">>))],
        lockfiles |-> {"yarn.lock", "package-lock.json"} ],
      [ pkg |-> [kind |-> "ok",
                 dependencies |-> ("react" :> Num(18)),
                 devDependencies |-> EmptyObject],
        lockfiles |-> {"pnpm-lock.yaml"} ],
      [ pkg |-> [kind |-> "missing"], lockfiles |-> {} ] }

\* process.versions.bun, process.version, process.argv, process.env
Processes ==
    { [ bun |-> "", version |-> "v20.11.0", argv |-> <<"node", "cli", "--host">>,
        PORT |-> <<>>, HOST |-> "" ],
      [ bun |-> "1.1.0", version |-> "v22.0.0", argv |-> <<"bun", "cli">>,
        PORT |-> <<8, 0, 8, 0>>, HOST |-> "0.0.0.0" ] }

\* Vite's resolved configuration for a command
ViteConfigs(command) ==
    { [ command |-> command, VITE_VERSION |-> "", port |-> 0,
        host |-> Undefined, https |-> FALSE, base |-> "/",
        mode |-> IF command = "serve" THEN "development" ELSE "production",
        envPrefix |-> Undefined, plugins |-> <<"vite-hud-plugin">>, alias |-> <<>>,
        httpServer |-> TRUE ],
      [ command |-> command, VITE_VERSION |-> "5.4.0", port |-> 3000,
        host |-> [t |-> "boolean", b |-> TRUE], https |-> TRUE, base |-> "/app/",
        mode |-> IF command = "serve" THEN "development" ELSE "production",
        envPrefix |-> [t |-> "array", a |-> <<"VITE_", "PUBLIC_">>],
        plugins |-> <<"vite:react", "vite-hud-plugin">>,
        alias |-> << [findIsString |-> TRUE, find |-> "@", replacement |-> "/src"],
                     [findIsString |-> FALSE, find |-> "re", replacement |-> "/x"] >>,
        httpServer |-> FALSE ] }

\* a Webpack compiler's options for a mode
WebpackCompilers(mode) ==
    { [ mode |-> mode, version |-> "5.90.0", publicPath |-> "",
        plugins |-> <<"HudWebpackPlugin", "Object", "">>, devServer |-> Undefined ],
      [ mode |-> mode, version |-> "", publicPath |-> "/static/",
        plugins |-> <<"HtmlWebpackPlugin", "HudWebpackPlugin">>,
        devServer |-> [t |-> "object", port |-> 9000, host |-> "", https |-> TRUE] ] }

ViteCommands == {"serve", "build"}
WebpackModes == {"development", "production", "none"}

\* a build-tool invocation
Contexts ==
    { [tool |-> "vite", config |-> c, project |-> p, proc |-> q] :
        c \in UNION {ViteConfigs(cmd) : cmd \in ViteCommands}, p \in Projects, q \in Processes }
    \cup
    { [tool |-> "webpack", config |-> c, project |-> p, proc |-> q] :
        c \in UNION {WebpackCompilers(m) : m \in WebpackModes}, p \in Projects, q \in Processes }

\* request URLs (req.url) as token sequences; the query starts at "?"
HUD_URL == <<"/__hud">>
Urls == { HUD_URL, HUD_URL \o <<"?", "t=1">>, HUD_URL \o <<"/">>, <<"/">> }

\* the path of a URL: what precedes the first "?"
RECURSIVE PathOf(_)
PathOf(url) ==
    IF url = <<>> \/ Head(url) = "?" THEN <<>>
    ELSE <<Head(url)>> \o PathOf(Tail(url))

\* ids of imported modules
VIRTUAL_MODULE_ID == <<"virtual:hud-diagnostics">>
RESOLVED_VIRTUAL_MODULE_ID == <<"\\0">> \o VIRTUAL_MODULE_ID
ImportIds == { VIRTUAL_MODULE_ID, <<"./main.ts">> }

(* ------------------------------- state --------------------------------- *)
VARIABLES
    ctx,             \* the build-tool invocation and the project files it finds
    now,             \* Date.now()
    moduleCount, openConnections, errorCount, startTime,   \* live counters
    isServe,         \* Vite plugin: command === 'serve' at configResolved
    diagnostics,     \* Vite plugin: the snapshot, Undefined until assigned
    HUD_DIAGNOSTICS, \* Webpack: DefinePlugin's definition of __HUD_DIAGNOSTICS__
    calls,           \* how many times each plugin hook has run
    crashed,         \* a hook threw: the build tool aborted
    graphSize,       \* Vite: server.moduleGraph.idToModuleMap.size
    intervals,       \* Vite: active setInterval(updateModuleCount) timers
    closeListeners,  \* Vite: 'close' listeners on server.httpServer
    wsListeners,     \* Vite: listeners on server.ws, per event
    taps,            \* Webpack: handlers tapped on compiler.hooks.done
    mounted,         \* /__hud middlewares in the dev server's chain
    closed,          \* the dev server has closed
    reads,           \* files readFileSync has been called on
    response,        \* outcome of the request just handled
    loaded,          \* outcome of the module import just handled
    events,          \* events so far: ws connections; errors (ws error events in
                     \* Vite, errors reported by compilations in Webpack)
    lastChange,      \* count of the last module-graph-changed event
    lastCount,       \* count the plugin was last handed (tick sample, done stats)
    computations,    \* the snapshot computations so far: the inputs each ran
                     \* against, the snapshot it yielded, whether counters were set
    peer,            \* a second plugin instance in the same process: the counters
                     \* of its closure (Vite); the Webpack plugin has none of its own
    env,             \* consumer: the template in use, its dev flag, the browser
    comp,            \* consumer: the component is "mounted" or "unmounted"
    mounts,          \* consumer: times the component has been mounted
    rendered,        \* consumer: the overlay is in the document
    timers,          \* consumer: active setInterval timers, per purpose
    observers,       \* consumer: connected PerformanceObservers, per entry type
    windowListeners, \* consumer: listeners on window, per event
    serverMetrics,   \* consumer: the server metrics the overlay displays
    issued,          \* consumer: fetch('/__hud') calls made so far
    inflight,        \* consumer: requests neither completed nor failed
    settled,         \* consumer: the outcome the polling callback handled last
    escaped,         \* consumer: an error left the polling callback
    serverUp,        \* consumer: the dev server answers /__hud
    display,         \* consumer: the poll whose response is displayed, and the
                     \* newest poll of the mounted component that has succeeded
    hotHandlers,     \* consumer: handler sets registered on the HMR client, of
                     \* the mounted component (live) and of torn-down ones (stale)
    hmrState,        \* consumer: the HMR counts the overlay displays
    dragging         \* consumer: the dragging flag of the component mounted last
                     \* (draggingRef.current, dragging, dragging.value)

\* the variables of the build plugin and its dev server
provider == << ctx, now, moduleCount, openConnections, errorCount, startTime, isServe,
               diagnostics, HUD_DIAGNOSTICS, calls, crashed, graphSize, intervals,
               closeListeners, wsListeners, taps, mounted, closed, reads, response,
               loaded, events, lastChange, lastCount, computations, peer >>

\* the variables of the consumer component in the browser
consumer == << env, comp, mounts, rendered, timers, observers, windowListeners, serverMetrics,
               issued, inflight, settled, escaped, serverUp, display, hotHandlers, hmrState,
               dragging >>

\* the consumer's variables that polling leaves alone
hmr == << hotHandlers, hmrState, dragging >>

vars == << provider, consumer >>

NoResponse == [kind |-> "none"]
NoBody == [t |-> "none"]
NotLoaded == [kind |-> "none"]
NoCount == 0 - 1

\* the production-guard signal of the build tool
IsDev ==
    IF ctx.tool = "vite" THEN ctx.config.command = "serve"
    ELSE ctx.config.mode = "development"

\* the state of a process that has just created the plugin
\* no second plugin instance in the process
NoPeer == [created |-> FALSE, moduleCount |-> 0, openConnections |-> 0, errorCount |-> 0]

Fresh ==
    /\ now = BootTime
    /\ moduleCount = 0
    /\ openConnections = 0
    /\ errorCount = 0
    /\ startTime = now
    /\ isServe = FALSE
    /\ diagnostics = Undefined
    /\ HUD_DIAGNOSTICS = Undefined
    /\ calls = [configResolved |-> 0, configureServer |-> 0, apply |-> 0]
    /\ crashed = FALSE
    /\ graphSize = 0
    /\ intervals = 0
    /\ closeListeners = 0
    /\ wsListeners = [connection |-> 0, error |-> 0]
    /\ taps = 0
    /\ mounted = 0
    /\ closed = FALSE
    /\ reads = {}
    /\ response = NoResponse
    /\ loaded = NotLoaded
    /\ events = [connection |-> 0, error |-> 0]
    /\ lastChange = NoCount
    /\ lastCount = NoCount
    /\ computations = << >>
    /\ peer = NoPeer

\* the consumer templates, and where each runs: its dev flag
\* (process.env.NODE_ENV === 'development', `dev` of $app/environment, the
\* isDev of the usage note) and whether the browser has the two
\* PerformanceObserver entry types
Templates == {"react", "svelte", "vue"}
Envs == [template : Templates, dev : BOOLEAN, perfObserver : BOOLEAN]

\* the server metrics a component displays before any poll has succeeded
InitialMetrics == [moduleCount |-> 0, openConnections |-> 0, errorCount |-> 0, uptime |-> 0]

NoTimers == [poll |-> 0, storage |-> 0, perf |-> 0, hmr |-> 0, tick |-> 0]
NoObservers == [lcp |-> 0, cls |-> 0]
NoListeners == [keydown |-> 0, mousemove |-> 0, mouseup |-> 0, popstate |-> 0]
NoOutcome == [kind |-> "none"]
NoDisplay == [shown |-> 0, newest |-> 0]
NoHandlers == [live |-> 0, stale |-> 0]
InitialHmrState == [errorCount |-> 0, fullReloadCount |-> 0]

\* a page in which the component has not been mounted
Unmounted ==
    /\ comp = "unmounted"
    /\ mounts = 0
    /\ rendered = FALSE
    /\ timers = NoTimers
    /\ observers = NoObservers
    /\ windowListeners = NoListeners
    /\ serverMetrics = InitialMetrics
    /\ issued = 0
    /\ inflight = {}
    /\ settled = NoOutcome
    /\ escaped = FALSE
    /\ display = NoDisplay
    /\ hotHandlers = NoHandlers
    /\ hmrState = InitialHmrState
    /\ dragging = FALSE

\* the page the build plugin's specifications leave alone
IdlePage ==
    /\ env = [template |-> "react", dev |-> TRUE, perfObserver |-> TRUE]
    /\ serverUp = TRUE
    /\ Unmounted

Init == ctx \in Contexts /\ Fresh /\ IdlePage

(* --------------------------- the HTTP endpoint ------------------------- *)
\* a fresh ServerResponse: Node's default status is 200
newResponse == [statusCode |-> 200, headers |-> EmptyObject, body |-> NoBody, ended |-> FALSE]

setHeader(res, name, value) == [res EXCEPT !.headers = Spread(@, (name :> value))]

end(res, body) == [res EXCEPT !.body = body, !.ended = TRUE]

\* a variant of uptime that forgets to subtract the start time
uptime_sinceEpoch == now \div 1000

\* Math.floor((Date.now() - startTime) / 1000)
uptime == (now - startTime) \div 1000

\* a variant of the middleware that matches on the path, query dropped
configureServer_middleware_byPath(url, res) ==
    IF PathOf(url) = HUD_URL
    THEN [ res |-> end(setHeader(setHeader(res, "Content-Type", "application/json"),
                                 "Cache-Control", "no-store"),
                       [ moduleCount |-> moduleCount, openConnections |-> openConnections,
                         errorCount |-> errorCount, uptime |-> uptime ]),
           next |-> 0 ]
    ELSE [ res |-> res, next |-> 1 ]

\* the middleware configureServer mounts: {res, next} where next counts the
\* calls of next()
configureServer_middleware(url, res) ==
    IF url = HUD_URL
    THEN [ res |-> end(setHeader(setHeader(res, "Content-Type", "application/json"),
                                 "Cache-Control", "no-store"),
                       [ moduleCount |-> moduleCount, openConnections |-> openConnections,
                         errorCount |-> errorCount, uptime |-> uptime ]),
           next |-> 0 ]
    ELSE [ res |-> res, next |-> 1 ]

\* the middleware hudDevServerMiddleware() returns
hudDevServerMiddleware(url, res) ==
    IF url = HUD_URL
    THEN [ res |-> end(setHeader(setHeader(res, "Content-Type", "application/json"),
                                 "Cache-Control", "no-store"),
                       [ moduleCount |-> moduleCount, openConnections |-> 0,
                         errorCount |-> errorCount, uptime |-> uptime ]),
           next |-> 0 ]
    ELSE [ res |-> res, next |-> 1 ]

\* the plugin's middleware for the build tool of this run
middleware(url, res) ==
    IF ctx.tool = "vite" THEN configureServer_middleware(url, res)
    ELSE hudDevServerMiddleware(url, res)

\* the request travels down the n mounted /__hud middlewares: each one that
\* calls next() hands it to the one after it
RECURSIVE chain(_, _, _)
chain(n, url, acc) ==
    IF n = 0 THEN acc
    ELSE LET r == middleware(url, acc.res)
             step == [ res |-> r.res, nextCalls |-> acc.nextCalls + r.next,
                       invoked |-> acc.invoked + 1 ]
         IN IF r.next = 0 THEN step ELSE chain(n - 1, url, step)

handle(url) ==
    LET out == chain(mounted, url, [res |-> newResponse, nextCalls |-> 0, invoked |-> 0])
    IN [ kind |-> "response", url |-> url, at |-> now, res |-> out.res,
         nextCalls |-> out.nextCalls, invoked |-> out.invoked ]

(* --------------------------- Vite plugin hooks ------------------------- *)
\* the variables of the Webpack plugin and of the dev server's environment
\* that no Vite hook assigns
counters == << moduleCount, openConnections, errorCount, startTime >>
ghosts == << events, lastChange, lastCount >>

\* one run of the snapshot computation: the project files, configuration and
\* process values it ran against, the snapshot it yielded, and whether it
\* found a moduleCount and an errorCount other than 0
computation(from, snapshot, live) ==
    [from |-> from, snapshot |-> snapshot, busy |-> (live[1] > 0 /\ live[3] > 0)]

\* a variant of configResolved whose snapshot holds the live moduleCount
\* where the code has the literal 0
configResolved_liveModuleCount ==
    /\ calls' = [calls EXCEPT !.configResolved = @ + 1]
    /\ isServe' = (ctx.config.command = "serve")
    /\ IF versionIsString(detectFramework(ctx.project.pkg))
       THEN /\ diagnostics' = [viteDiagnostics(ctx.config, ctx.project, ctx.proc)
                                  EXCEPT !.moduleCount = moduleCount]
            /\ computations' = Append(computations, computation(ctx, diagnostics', counters))
            /\ reads' = reads \cup {"package.json"} \cup lockfileReadsFrom(ctx.project.lockfiles, 1)
            /\ crashed' = FALSE
       ELSE /\ diagnostics' = diagnostics
            /\ computations' = computations
            /\ reads' = reads \cup {"package.json"}
            /\ crashed' = TRUE
    /\ response' = NoResponse /\ loaded' = NotLoaded
    /\ UNCHANGED << consumer, peer, ctx, now, counters, HUD_DIAGNOSTICS, graphSize, intervals,
                    closeListeners, wsListeners, taps, mounted, closed, ghosts >>

\* configResolved: isServe is assigned first; the snapshot literal is then
\* evaluated field by field and throws at version.replace for a non-string
configResolved ==
    /\ calls' = [calls EXCEPT !.configResolved = @ + 1]
    /\ isServe' = (ctx.config.command = "serve")
    /\ IF versionIsString(detectFramework(ctx.project.pkg))
       THEN /\ diagnostics' = viteDiagnostics(ctx.config, ctx.project, ctx.proc)
            /\ computations' = Append(computations, computation(ctx, diagnostics', counters))
            /\ reads' = reads \cup {"package.json"} \cup lockfileReadsFrom(ctx.project.lockfiles, 1)
            /\ crashed' = FALSE
       ELSE /\ diagnostics' = diagnostics
            /\ computations' = computations
            /\ reads' = reads \cup {"package.json"}
            /\ crashed' = TRUE
    /\ response' = NoResponse /\ loaded' = NotLoaded
    /\ UNCHANGED << consumer, peer, ctx, now, counters, HUD_DIAGNOSTICS, graphSize, intervals,
                    closeListeners, wsListeners, taps, mounted, closed, ghosts >>

\* Vite resolves the configuration and calls the hook, once per invocation
ConfigResolved ==
    /\ ctx.tool = "vite" /\ ~crashed /\ calls.configResolved = 0
    /\ configResolved

\* resolveId: the virtual id resolves to the '\0'-prefixed id
resolveId(id) == IF id = VIRTUAL_MODULE_ID THEN RESOLVED_VIRTUAL_MODULE_ID ELSE <<>>

\* a variant of load without the isServe guard
load_unguarded(id) ==
    IF id = RESOLVED_VIRTUAL_MODULE_ID
    THEN [kind |-> "module", export |-> diagnostics]
    ELSE [kind |-> "undefined"]

\* load: the module text `export default <JSON>` for the virtual module
load(id) ==
    IF id = RESOLVED_VIRTUAL_MODULE_ID
    THEN [kind |-> "module", export |-> IF isServe THEN diagnostics ELSE EMPTY_DIAGNOSTICS]
    ELSE [kind |-> "undefined"]

\* an import is resolved and loaded (dev server and build alike)
ImportModule(id) ==
    /\ ctx.tool = "vite" /\ ~crashed /\ calls.configResolved > 0
    /\ loaded' = load(IF resolveId(id) # <<>> THEN resolveId(id) ELSE id)
    /\ response' = NoResponse
    /\ UNCHANGED << consumer, computations, peer, ctx, now, counters, isServe, diagnostics, HUD_DIAGNOSTICS, calls,
                    crashed, graphSize, intervals, closeListeners, wsListeners, taps,
                    mounted, closed, reads, ghosts >>

\* a variant of on that keeps one listener per event
on_once(n) == IF n = 0 THEN 1 ELSE n

\* emitter.on(event, listener): one more listener of the event, whatever is
\* registered already
on(n) == n + 1

\* configureServer: a timer, a close listener where there is an http server,
\* a listener of each ws event and a middleware are added, on every call
configureServer ==
    /\ calls' = [calls EXCEPT !.configureServer = @ + 1]
    /\ intervals' = intervals + 1
    /\ closeListeners' = IF ctx.config.httpServer THEN on(closeListeners) ELSE closeListeners
    /\ wsListeners' = [connection |-> on(wsListeners.connection), error |-> on(wsListeners.error)]
    /\ mounted' = mounted + 1
    /\ response' = NoResponse /\ loaded' = NotLoaded
    /\ UNCHANGED << consumer, computations, peer, ctx, now, counters, isServe, diagnostics, HUD_DIAGNOSTICS, crashed,
                    graphSize, taps, closed, reads, ghosts >>

\* Vite calls configureServer once, when it creates the dev server (command
\* 'serve'), after configResolved
ConfigureServer ==
    /\ ctx.tool = "vite" /\ ~crashed /\ ~closed
    /\ ctx.config.command = "serve"
    /\ calls.configResolved > 0 /\ calls.configureServer = 0
    /\ configureServer

ServerRunning == ctx.tool = "vite" /\ ~crashed /\ ~closed /\ calls.configureServer > 0

\* the dev server's module graph changes size
ModuleGraphChanged(c) ==
    /\ ServerRunning
    /\ c # graphSize
    /\ graphSize' = c
    /\ lastChange' = c
    /\ response' = NoResponse /\ loaded' = NotLoaded
    /\ UNCHANGED << consumer, computations, peer, ctx, now, counters, isServe, diagnostics, HUD_DIAGNOSTICS, calls,
                    crashed, intervals, closeListeners, wsListeners, taps, mounted,
                    closed, reads, events, lastCount >>

\* updateModuleCount: moduleCount = server.moduleGraph.idToModuleMap.size
updateModuleCount(count, size) == size

\* one of the 2-second timers fires
IntervalTick ==
    /\ ctx.tool = "vite" /\ intervals > 0
    /\ moduleCount' = updateModuleCount(moduleCount, graphSize)
    /\ lastCount' = graphSize
    /\ response' = NoResponse /\ loaded' = NotLoaded
    /\ UNCHANGED << consumer, computations, peer, ctx, now, openConnections, errorCount, startTime, isServe, diagnostics,
                    HUD_DIAGNOSTICS, calls, crashed, graphSize, intervals, closeListeners,
                    wsListeners, taps, mounted, closed, reads, events, lastChange >>

\* a variant of the connection listener that sets the counter to the
\* number of listeners instead of incrementing
onConnection_assign(count, listeners) == IF listeners > 0 THEN listeners ELSE count

\* the listeners of ws 'connection': each one runs openConnections++
onConnection(count, listeners) == count + listeners

\* a variant of the error listener that sets the counter instead of incrementing
onError_assign(count, listeners) == IF listeners > 0 THEN 1 ELSE count

\* the listeners of ws 'error': each one runs errorCount++
onError(count, listeners) == count + listeners

WsConnection ==
    /\ ServerRunning
    /\ events.connection < MaxEvents
    /\ events' = [events EXCEPT !.connection = @ + 1]
    /\ openConnections' = onConnection(openConnections, wsListeners.connection)
    /\ response' = NoResponse /\ loaded' = NotLoaded
    /\ UNCHANGED << consumer, computations, peer, ctx, now, moduleCount, errorCount, startTime, isServe, diagnostics,
                    HUD_DIAGNOSTICS, calls, crashed, graphSize, intervals, closeListeners,
                    wsListeners, taps, mounted, closed, reads, lastChange, lastCount >>

WsError ==
    /\ ServerRunning
    /\ events.error < MaxEvents
    /\ events' = [events EXCEPT !.error = @ + 1]
    /\ errorCount' = onError(errorCount, wsListeners.error)
    /\ response' = NoResponse /\ loaded' = NotLoaded
    /\ UNCHANGED << consumer, computations, peer, ctx, now, moduleCount, openConnections, startTime, isServe, diagnostics,
                    HUD_DIAGNOSTICS, calls, crashed, graphSize, intervals, closeListeners,
                    wsListeners, taps, mounted, closed, reads, lastChange, lastCount >>

\* server.httpServer emits 'close': every close listener clears its interval
ServerClose ==
    /\ ServerRunning
    /\ closed' = TRUE
    /\ intervals' = IF closeListeners > 0 THEN intervals - closeListeners ELSE intervals
    /\ response' = NoResponse /\ loaded' = NotLoaded
    /\ UNCHANGED << consumer, computations, peer, ctx, now, counters, isServe, diagnostics, HUD_DIAGNOSTICS, calls,
                    crashed, graphSize, closeListeners, wsListeners, taps, mounted,
                    reads, ghosts >>

\* a variant of the middlewares that counts a request to /__hud as a connection
middleware_counters_countsRequest(url, c) ==
    IF url = HUD_URL THEN << c[1], c[2] + 1, c[3], c[4] >> ELSE c

\* the live counters after the middleware chain has handled a request: the
\* handlers read moduleCount, openConnections, errorCount and startTime and
\* assign none of them
middleware_counters(url, c) == c

\* the Vite dev server handles a request
ViteRequest(url) ==
    /\ ServerRunning
    /\ response' = handle(url)
    /\ loaded' = NotLoaded
    /\ moduleCount' = middleware_counters(url, counters)[1]
    /\ openConnections' = middleware_counters(url, counters)[2]
    /\ errorCount' = middleware_counters(url, counters)[3]
    /\ startTime' = middleware_counters(url, counters)[4]
    /\ UNCHANGED << consumer, computations, peer, ctx, now, isServe, diagnostics, HUD_DIAGNOSTICS, calls,
                    crashed, graphSize, intervals, closeListeners, wsListeners, taps,
                    mounted, closed, reads, ghosts >>

(* -------------------------- Webpack plugin hooks ----------------------- *)
\* the done hook's handler: info.modules?.length || 0 and info.errors?.length || 0
\* (stats.toJson({modules: true, errors: true}) holds both arrays)
done_moduleCount(count, info) == info.modules
done_errorCount(count, info) == info.errors

\* HudWebpackPlugin.apply: outside development it returns at once; otherwise
\* it evaluates the snapshot literal (throwing at version.replace for a
\* non-string), applies a DefinePlugin holding it and taps the done hook
apply ==
    /\ calls' = [calls EXCEPT !.apply = @ + 1]
    /\ IF ctx.config.mode # "development"
       THEN UNCHANGED << HUD_DIAGNOSTICS, computations, taps, reads, crashed >>
       ELSE IF versionIsString(detectFramework_webpack(ctx.project.pkg))
       THEN /\ HUD_DIAGNOSTICS' = webpackDiagnostics(ctx.config, ctx.project, ctx.proc)
            /\ computations' = Append(computations, computation(ctx, HUD_DIAGNOSTICS', counters))
            /\ taps' = taps + 1
            /\ reads' = reads \cup {"package.json"} \cup lockfileReadsFrom(ctx.project.lockfiles, 1)
            /\ crashed' = FALSE
       ELSE /\ crashed' = TRUE
            /\ reads' = reads \cup {"package.json"}
            /\ UNCHANGED << HUD_DIAGNOSTICS, computations, taps >>
    /\ response' = NoResponse /\ loaded' = NotLoaded
    /\ UNCHANGED << consumer, peer, ctx, now, counters, isServe, diagnostics, graphSize, intervals,
                    closeListeners, wsListeners, mounted, closed, ghosts >>

\* webpack calls apply once per compiler
Apply ==
    /\ ctx.tool = "webpack" /\ ~crashed /\ calls.apply = 0
    /\ apply

\* the dev server's setup mounts hudDevServerMiddleware() (setupMiddlewares,
\* setupProxy): the call reads neither the compiler's mode nor the plugin
MountMiddleware ==
    /\ ctx.tool = "webpack" /\ ~crashed
    /\ mounted < MaxMounted
    /\ mounted' = mounted + 1
    /\ response' = NoResponse /\ loaded' = NotLoaded
    /\ UNCHANGED << consumer, computations, peer, ctx, now, counters, isServe, diagnostics, HUD_DIAGNOSTICS, calls,
                    crashed, graphSize, intervals, closeListeners, wsListeners, taps,
                    closed, reads, ghosts >>

\* a compilation finishes with m modules and e errors: compiler.hooks.done
\* calls the tapped handlers
CompilationDone(m, e) ==
    /\ ctx.tool = "webpack" /\ ~crashed /\ calls.apply > 0
    /\ events.error + e <= MaxEvents
    /\ events' = [events EXCEPT !.error = @ + e]
    /\ lastChange' = m
    /\ IF taps > 0
       THEN /\ moduleCount' = done_moduleCount(moduleCount, [modules |-> m, errors |-> e])
            /\ errorCount' = done_errorCount(errorCount, [modules |-> m, errors |-> e])
            /\ lastCount' = m
       ELSE UNCHANGED << moduleCount, errorCount, lastCount >>
    /\ response' = NoResponse /\ loaded' = NotLoaded
    /\ UNCHANGED << consumer, computations, peer, ctx, now, openConnections, startTime, isServe, diagnostics,
                    HUD_DIAGNOSTICS, calls, crashed, graphSize, intervals, closeListeners,
                    wsListeners, taps, mounted, closed, reads >>

\* the Webpack dev server handles a request
WebpackRequest(url) ==
    /\ ctx.tool = "webpack" /\ ~crashed
    /\ response' = handle(url)
    /\ loaded' = NotLoaded
    /\ moduleCount' = middleware_counters(url, counters)[1]
    /\ openConnections' = middleware_counters(url, counters)[2]
    /\ errorCount' = middleware_counters(url, counters)[3]
    /\ startTime' = middleware_counters(url, counters)[4]
    /\ UNCHANGED << consumer, computations, peer, ctx, now, isServe, diagnostics, HUD_DIAGNOSTICS, calls,
                    crashed, graphSize, intervals, closeListeners, wsListeners, taps,
                    mounted, closed, reads, ghosts >>

(* ------------------------------ the clock ------------------------------ *)
Advance ==
    /\ ~crashed
    /\ now + ClockStep <= MaxClock
    /\ now' = now + ClockStep
    /\ response' = NoResponse /\ loaded' = NotLoaded
    /\ UNCHANGED << consumer, computations, peer, ctx, counters, isServe, diagnostics, HUD_DIAGNOSTICS, calls, crashed,
                    graphSize, intervals, closeListeners, wsListeners, taps, mounted,
                    closed, reads, ghosts >>

(* --------------------------- the specification ------------------------- *)
Next ==
    \/ ConfigResolved
    \/ \E id \in ImportIds : ImportModule(id)
    \/ ConfigureServer
    \/ \E c \in 0..MaxModules : ModuleGraphChanged(c)
    \/ IntervalTick
    \/ WsConnection
    \/ WsError
    \/ ServerClose
    \/ \E url \in Urls : ViteRequest(url)
    \/ Apply
    \/ MountMiddleware
    \/ \E m \in 0..MaxModules, e \in 0..MaxErrors : CompilationDone(m, e)
    \/ \E url \in Urls : WebpackRequest(url)
    \/ Advance

Spec == Init /\ [][Next]_vars

(* -------------------- two plugin instances in a process ---------------- *)
\* a second instance is set up next to this one: a second hudPlugin() whose
\* configureServer has run on a dev server of its own, or a second
\* HudWebpackPlugin applied to a second development compiler, with a second
\* hudDevServerMiddleware()
PeerCreated ==
    /\ ~peer.created
    /\ \/ ServerRunning
       \/ ctx.tool = "webpack" /\ ~crashed /\ taps > 0 /\ mounted > 0
    /\ peer' = [peer EXCEPT !.created = TRUE]
    /\ UNCHANGED << consumer, computations, ctx, now, counters, isServe, diagnostics, HUD_DIAGNOSTICS, calls,
                    crashed, graphSize, intervals, closeListeners, wsListeners, taps, mounted,
                    closed, reads, response, loaded, ghosts >>

\* a client connects to the second instance's server: its listener runs
\* openConnections++ on the variable of its own closure
PeerWsConnection ==
    /\ ctx.tool = "vite" /\ peer.created
    /\ peer.openConnections < MaxEvents
    /\ peer' = [peer EXCEPT !.openConnections = onConnection(@, 1)]
    /\ UNCHANGED << consumer, computations, ctx, now, counters, isServe, diagnostics, HUD_DIAGNOSTICS, calls,
                    crashed, graphSize, intervals, closeListeners, wsListeners, taps, mounted,
                    closed, reads, response, loaded, ghosts >>

\* the second instance's server reports a WebSocket error
PeerWsError ==
    /\ ctx.tool = "vite" /\ peer.created
    /\ peer.errorCount < MaxEvents
    /\ peer' = [peer EXCEPT !.errorCount = onError(@, 1)]
    /\ UNCHANGED << consumer, computations, ctx, now, counters, isServe, diagnostics, HUD_DIAGNOSTICS, calls,
                    crashed, graphSize, intervals, closeListeners, wsListeners, taps, mounted,
                    closed, reads, response, loaded, ghosts >>

\* the 2-second timer of the second instance fires: its updateModuleCount
\* assigns the size c of its server's module graph to the moduleCount of its
\* own closure
PeerIntervalTick(c) ==
    /\ ctx.tool = "vite" /\ peer.created
    /\ peer' = [peer EXCEPT !.moduleCount = updateModuleCount(@, c)]
    /\ UNCHANGED << consumer, computations, ctx, now, counters, isServe, diagnostics, HUD_DIAGNOSTICS, calls,
                    crashed, graphSize, intervals, closeListeners, wsListeners, taps, mounted,
                    closed, reads, response, loaded, ghosts >>

\* the second compiler finishes a compilation with m modules and e errors:
\* the handler its plugin tapped assigns the module-level moduleCount and
\* errorCount, the only ones there are
PeerCompilationDone(m, e) ==
    /\ ctx.tool = "webpack" /\ peer.created
    /\ moduleCount' = done_moduleCount(moduleCount, [modules |-> m, errors |-> e])
    /\ errorCount' = done_errorCount(errorCount, [modules |-> m, errors |-> e])
    /\ response' = NoResponse /\ loaded' = NotLoaded
    /\ UNCHANGED << consumer, computations, peer, ctx, now, openConnections, startTime, isServe, diagnostics,
                    HUD_DIAGNOSTICS, calls, crashed, graphSize, intervals, closeListeners,
                    wsListeners, taps, mounted, closed, reads, ghosts >>

\* the counters the second instance's endpoint would report now: those of
\* its closure (Vite), the module-level ones (Webpack)
PeerReported ==
    IF ctx.tool = "vite"
    THEN [moduleCount |-> peer.moduleCount, openConnections |-> peer.openConnections,
          errorCount |-> peer.errorCount]
    ELSE [moduleCount |-> moduleCount, openConnections |-> 0, errorCount |-> errorCount]

\* an event is delivered to this instance, to the second one
OwnEvent ==
    \/ IntervalTick
    \/ WsConnection
    \/ WsError
    \/ \E m \in 0..MaxModules, e \in 0..MaxErrors : CompilationDone(m, e)
PeerEvent ==
    \/ \E c \in 0..MaxModules : PeerIntervalTick(c)
    \/ PeerWsConnection
    \/ PeerWsError
    \/ \E m \in 0..MaxModules, e \in 0..MaxErrors : PeerCompilationDone(m, e)

NextTwoInstances ==
    \/ ConfigResolved
    \/ ConfigureServer
    \/ Apply
    \/ MountMiddleware
    \/ PeerCreated
    \/ \E c \in 0..MaxModules : ModuleGraphChanged(c)
    \/ OwnEvent
    \/ PeerEvent
    \/ ViteRequest(HUD_URL)
    \/ WebpackRequest(HUD_URL)

SpecTwoInstances == Init /\ [][NextTwoInstances]_vars

(* ------------------- the snapshot over all project files --------------- *)
\* the packages detectFramework looks for (either plugin)
Markers == {"@sveltejs/kit", "nuxt", "next", "vue", "react", "react-scripts"}

\* version values a manifest may hold for a package: a range in dependencies,
\* another in devDependencies, and values that are empty or not strings
DepVersion == Str(<<"^", "1">>)
DevVersion == Str(<<"~", "2">>)
OddVersions == { Str(<<>>), Num(18) }

\* package.json: missing, unparsable, every set of markers in dependencies
\* with at most one marker in devDependencies, and every such set with one
\* marker's version replaced by an odd value
Manifests ==
    { [kind |-> "missing"], [kind |-> "unparsable"] }
    \cup
    { [kind |-> "ok", dependencies |-> [m \in D |-> DepVersion],
                      devDependencies |-> [m \in E |-> DevVersion]] :
        D \in SUBSET Markers, E \in {{}} \cup {{m} : m \in Markers} }
    \cup
    UNION { { [kind |-> "ok",
               dependencies |-> [m \in D |-> IF m = k THEN o ELSE DepVersion],
               devDependencies |-> EmptyObject] : k \in D, o \in OddVersions } :
            D \in SUBSET Markers }

\* the lockfiles a project root may hold
Lockfiles == {"bun.lockb", "yarn.lock", "pnpm-lock.yaml", "package-lock.json"}

\* a dev-mode invocation of either build tool on any project
SnapshotContexts ==
    { [tool |-> t,
       config |-> IF t = "vite" THEN CHOOSE c \in ViteConfigs("serve") : c.httpServer
                  ELSE CHOOSE c \in WebpackCompilers("development") : c.devServer = Undefined,
       project |-> [pkg |-> m, lockfiles |-> l],
       proc |-> CHOOSE q \in Processes : q.bun = ""] :
        t \in {"vite", "webpack"}, m \in Manifests, l \in SUBSET Lockfiles }

InitSnapshot == ctx \in SnapshotContexts /\ Fresh /\ IdlePage

\* the hooks that create and serve the static snapshot
NextSnapshot ==
    \/ ConfigResolved
    \/ \E id \in ImportIds : ImportModule(id)
    \/ Apply

SpecSnapshot == InitSnapshot /\ [][NextSnapshot]_vars

\* the static channel has been created and can be read
SnapshotCreated ==
    IF ctx.tool = "vite" THEN diagnostics # Undefined ELSE HUD_DIAGNOSTICS # Undefined

\* what a read of the static channel returns once it has been created
StaticChannel ==
    IF ctx.tool = "vite" THEN load(RESOLVED_VIRTUAL_MODULE_ID).export ELSE HUD_DIAGNOSTICS

(* ------------------ the configuration resolved again ------------------- *)
\* Vite resolves the configuration again in the same process (a server
\* restart that keeps the plugin instances of an inline configuration): the
\* hook runs again on the same closure
ConfigResolvedAgain ==
    /\ ctx.tool = "vite" /\ ~crashed
    /\ calls.configResolved \in 1..MaxRestarts
    /\ configResolved

\* the project files change on disk while the process runs
ProjectChanged(p) ==
    /\ ~crashed
    /\ p # ctx.project
    /\ ctx' = [ctx EXCEPT !.project = p]
    /\ response' = NoResponse /\ loaded' = NotLoaded
    /\ UNCHANGED << consumer, computations, peer, now, counters, isServe, diagnostics, HUD_DIAGNOSTICS, calls, crashed,
                    graphSize, intervals, closeListeners, wsListeners, taps, mounted,
                    closed, reads, ghosts >>

\* configureServer is invoked again on the same plugin instance with the
\* same server
ConfigureServerAgain ==
    /\ ServerRunning
    /\ calls.configureServer \in 1..MaxRestarts
    /\ configureServer

\* a Vite dev server on any of the projects
InitRestart ==
    /\ ctx \in { c \in Contexts : c.tool = "vite" /\ c.config.command = "serve" }
    /\ Fresh
    /\ IdlePage

NextRestart ==
    \/ ConfigResolved
    \/ ConfigResolvedAgain
    \/ \E p \in Projects : ProjectChanged(p)
    \/ \E id \in ImportIds : ImportModule(id)
    \/ ConfigureServer
    \/ \E c \in 0..MaxModules : ModuleGraphChanged(c)
    \/ IntervalTick
    \/ WsError
    \/ ViteRequest(HUD_URL)

SpecRestart == InitRestart /\ [][NextRestart]_vars

\* the hooks of one plugin instance invoked again while the project files
\* stay as they are
NextReinvoked ==
    \/ ConfigResolved
    \/ ConfigResolvedAgain
    \/ ConfigureServer
    \/ ConfigureServerAgain
    \/ \E c \in 0..MaxModules : ModuleGraphChanged(c)
    \/ IntervalTick
    \/ WsConnection
    \/ WsError
    \/ ViteRequest(HUD_URL)

SpecReinvoked == InitRestart /\ [][NextReinvoked]_vars

(* -------------------- the snapshot computed again ---------------------- *)
\* apply is called again on the same compiler (the plugin is listed twice, or
\* a wrapper applies it again): the later DefinePlugin's definition of
\* __HUD_DIAGNOSTICS__ is the one in force, and the done hook holds one more
\* handler
ApplyAgain ==
    /\ ctx.tool = "webpack" /\ ~crashed
    /\ calls.apply \in 1..MaxRestarts
    /\ apply

\* the hooks that compute the snapshot
SnapshotComputation == ConfigResolved \/ ConfigResolvedAgain \/ Apply \/ ApplyAgain

\* a development run of either build tool on a project whose files may
\* change between two runs of the snapshot computation
InitRecomputed ==
    /\ ctx \in { c \in Contexts :
                   /\ c.proc.bun = ""
                   /\ IF c.tool = "vite" THEN c.config.command = "serve" /\ c.config.httpServer
                      ELSE c.config.mode = "development" /\ c.config.devServer = Undefined }
    /\ Fresh
    /\ IdlePage

NextRecomputed ==
    \/ SnapshotComputation
    \/ \E p \in Projects : ProjectChanged(p)
    \/ ConfigureServer
    \/ \E c \in 0..MaxModules : ModuleGraphChanged(c)
    \/ IntervalTick
    \/ WsError
    \/ \E m \in 0..MaxModules, e \in 0..MaxErrors : CompilationDone(m, e)

SpecRecomputed == InitRecomputed /\ [][NextRecomputed]_vars

(* ------------------------- the consumer component --------------------- *)
\* what mounting the component starts. React returns null before any hook
\* when the dev flag is false; the Svelte effects and Vue's onMounted run
\* whatever the flag, and only Svelte's markup tests it.
startedTimers(e) ==
    CASE e.template = "react" ->
            IF e.dev THEN [poll |-> 1, storage |-> 1, perf |-> 1, hmr |-> 0, tick |-> 1]
            ELSE NoTimers
      [] e.template = "svelte" -> [poll |-> 1, storage |-> 1, perf |-> 1, hmr |-> 1, tick |-> 1]
      [] e.template = "vue" -> [poll |-> 1, storage |-> 1, perf |-> 1, hmr |-> 0, tick |-> 1]

startedListeners(e) ==
    CASE e.template = "react" ->
            IF e.dev THEN [keydown |-> 1, mousemove |-> 0, mouseup |-> 0, popstate |-> 1]
            ELSE NoListeners
      [] e.template = "svelte" -> [keydown |-> 1, mousemove |-> 0, mouseup |-> 0, popstate |-> 0]
      [] e.template = "vue" -> [keydown |-> 1, mousemove |-> 1, mouseup |-> 1, popstate |-> 1]

\* the window listeners a mousedown on the header adds, d being the dragging
\* flag before it: React's onDragStart adds an onMove and an onUp on every
\* call, Svelte's drag effect runs again when dragging turns true and adds
\* onDragMove and onDragEnd, Vue has its two from onMounted
dragListeners(e, d) ==
    CASE e.template = "react" -> [keydown |-> 0, mousemove |-> 1, mouseup |-> 1, popstate |-> 0]
      [] e.template = "svelte" ->
            IF d THEN NoListeners
            ELSE [keydown |-> 0, mousemove |-> 1, mouseup |-> 1, popstate |-> 0]
      [] e.template = "vue" -> NoListeners

\* the listeners left once the mouseup handlers have run: each onUp of React
\* removes itself and its onMove, Svelte's onDragEnd clears dragging and the
\* drag effect's cleanup removes both, Vue's onDragEnd removes nothing
afterMouseUp(e, l) ==
    IF e.template = "vue" THEN l ELSE [l EXCEPT !.mousemove = 0, !.mouseup = 0]

\* observe() throws where the entry type is not supported: the observer
\* exists but is not connected
startedObservers(e) ==
    IF (e.template = "react" /\ ~e.dev) \/ ~e.perfObserver THEN NoObservers
    ELSE [lcp |-> 1, cls |-> 1]

\* the overlay is rendered (`visible` starts true)
renders(e) ==
    CASE e.template = "react" -> e.dev
      [] e.template = "svelte" -> e.dev
      [] e.template = "vue" -> TRUE

\* the sum of two records of counts
Plus(a, b) == [k \in DOMAIN a |-> a[k] + b[k]]

\* a variant of the teardown that leaves the /__hud polling interval running
clearedTimers_keepsPoll(e, t) == [t EXCEPT !.storage = 0, !.perf = 0, !.hmr = 0, !.tick = 0]

\* teardown: the effect cleanups (React, Svelte) and onUnmounted (Vue) clear
\* every interval the mount started
clearedTimers(e, t) == NoTimers

\* teardown disconnects both observers
disconnected(e, o) == NoObservers

\* teardown removes the listeners it has a reference to: Vue's popstate
\* listener is an anonymous function and stays; React's cleanups remove
\* keydown and popstate, the onMove and onUp of a drag in progress are known
\* to onUp alone and stay; Svelte's cleanups remove keydown and the two of
\* the drag effect
removedListeners(e, l) ==
    CASE e.template = "vue" -> [NoListeners EXCEPT !.popstate = l.popstate]
      [] e.template = "react" -> [l EXCEPT !.keydown = 0, !.popstate = 0]
      [] e.template = "svelte" -> [l EXCEPT !.keydown = 0, !.mousemove = 0, !.mouseup = 0]

\* the handler sets the HMR effect registers: the effect (onMounted in Vue)
\* calls hot.on for vite:beforeUpdate, vite:error and vite:beforeFullReload
\* where the HMR client exists, which is in dev; React runs no effect when
\* the dev flag is false
registered(e) == IF e.dev THEN 1 ELSE 0

\* teardown calls no hot.off and the HMR effects return no cleanup for their
\* handlers: the handlers of the torn-down component stay registered
afterTeardown(h) == [live |-> 0, stale |-> h.stale + h.live]

\* the component is mounted
Mount ==
    /\ comp = "unmounted"
    /\ mounts < MaxMounts
    /\ comp' = "mounted"
    /\ mounts' = mounts + 1
    /\ rendered' = renders(env)
    /\ timers' = Plus(timers, startedTimers(env))
    /\ observers' = Plus(observers, startedObservers(env))
    /\ windowListeners' = Plus(windowListeners, startedListeners(env))
    /\ serverMetrics' = InitialMetrics
    /\ settled' = NoOutcome
    /\ display' = NoDisplay
    /\ hotHandlers' = [hotHandlers EXCEPT !.live = registered(env)]
    /\ hmrState' = InitialHmrState
    /\ dragging' = FALSE
    /\ UNCHANGED << provider, env, issued, inflight, escaped, serverUp >>

\* the component is torn down
Unmount ==
    /\ comp = "mounted"
    /\ comp' = "unmounted"
    /\ rendered' = FALSE
    /\ timers' = clearedTimers(env, timers)
    /\ observers' = disconnected(env, observers)
    /\ windowListeners' = removedListeners(env, windowListeners)
    /\ settled' = NoOutcome
    /\ hotHandlers' = afterTeardown(hotHandlers)
    /\ UNCHANGED << provider, env, mounts, serverMetrics, issued, inflight, escaped,
                    serverUp, display, hmrState, dragging >>

\* the polling interval fires: the callback calls fetch('/__hud') and awaits
PollTick ==
    /\ timers.poll > 0
    /\ issued < MaxPolls
    /\ issued' = issued + 1
    /\ inflight' = inflight \cup {[id |-> issued + 1, mount |-> mounts,
                                    phase |-> "fetch", o |-> NoOutcome]}
    /\ settled' = NoOutcome
    /\ UNCHANGED << provider, env, comp, mounts, rendered, timers, observers, windowListeners,
                    serverMetrics, escaped, serverUp, display, hmr >>

\* bodies /__hud may be answered with, and what res.json() makes of one
MetricsBodies ==
    { [moduleCount |-> 1, openConnections |-> 0, errorCount |-> 0, uptime |-> 5],
      [moduleCount |-> 2, openConnections |-> 1, errorCount |-> 1, uptime |-> 10] }
Bodies == { [t |-> "invalid"] } \cup { [t |-> "object", v |-> m] : m \in MetricsBodies }

\* how a fetch settles: it rejects, or resolves to a response; the body of
\* a response that is not ok is never read, one such response stands for all
Outcomes ==
    { [kind |-> "reject"] } \cup
    { [kind |-> "response", ok |-> FALSE, json |-> b] :
        b \in { [t |-> "object", v |-> CHOOSE m \in MetricsBodies : m.moduleCount = 2] } } \cup
    { [kind |-> "response", ok |-> TRUE, json |-> b] : b \in Bodies }

\* a failed poll: fetch rejects, the response is not ok, or the body does
\* not parse
Failed(o) == o.kind = "reject" \/ ~o.ok \/ o.json.t = "invalid"

\* setServerMetrics(json) (React), serverMetrics = json (Svelte),
\* Object.assign(serverMetrics, json) (Vue)
assignMetrics(e, metrics, json) ==
    IF e.template = "vue" THEN Spread(metrics, json) ELSE json

\* a variant of the polling callback without the res.ok test
pollCallback_noOkTest(e, metrics, o) ==
    IF o.kind = "reject" \/ o.json.t = "invalid"
    THEN [metrics |-> metrics, thrown |-> FALSE]
    ELSE [metrics |-> assignMetrics(e, metrics, o.json.v), thrown |-> FALSE]

\* the continuation of the polling callback once fetch has settled, inside
\* try { ... } catch {}: a rejection and a body that does not parse are
\* caught, a response that is not ok is skipped
pollCallback(e, metrics, o) ==
    IF o.kind = "reject" THEN [metrics |-> metrics, thrown |-> FALSE]
    ELSE IF ~o.ok THEN [metrics |-> metrics, thrown |-> FALSE]
    ELSE IF o.json.t = "invalid" THEN [metrics |-> metrics, thrown |-> FALSE]
    ELSE [metrics |-> assignMetrics(e, metrics, o.json.v), thrown |-> FALSE]

\* a variant of the callback that stops polling after a failed poll
timersAfterPoll_stopOnFailure(t, o) == IF Failed(o) THEN [t EXCEPT !.poll = 0] ELSE t

\* the timers after the polling callback has handled an outcome: the callback
\* clears and sets none
timersAfterPoll(t, o) == t

\* the dev server stops or resumes answering /__hud
EndpointChanges ==
    /\ serverUp' = ~serverUp
    /\ UNCHANGED << provider, env, comp, mounts, rendered, timers, observers, windowListeners,
                    serverMetrics, issued, inflight, settled, escaped, display, hmr >>

\* the request belongs to the instance that is mounted now; the callback of
\* an earlier instance's request assigns that instance's state, which is no
\* longer displayed
OfMountedInstance(r) == comp = "mounted" /\ r.mount = mounts

\* the callback goes on to `await res.json()`: fetch has resolved to a
\* response that is ok
awaitsJson(o) == o.kind = "response" /\ o.ok

\* the polling callback of request r finishes with outcome o
Completes(r, o) ==
    /\ inflight' = inflight \ {r}
    /\ serverMetrics' = IF OfMountedInstance(r)
                        THEN pollCallback(env, serverMetrics, o).metrics
                        ELSE serverMetrics
    /\ display' = IF OfMountedInstance(r) /\ ~Failed(o)
                  THEN [shown |-> r.id,
                        newest |-> IF r.id > display.newest THEN r.id ELSE display.newest]
                  ELSE display
    /\ escaped' = (escaped \/ pollCallback(env, serverMetrics, o).thrown)
    /\ timers' = timersAfterPoll(timers, o)
    /\ settled' = o
    /\ UNCHANGED << provider, env, comp, mounts, rendered, observers, windowListeners,
                    issued, serverUp, hmr >>

\* the fetch of an outstanding request settles and its callback resumes from
\* `await fetch(...)`; a request succeeds exactly when the server answers.
\* The callback finishes on a rejection and on a response that is not ok, and
\* returns to the event loop at `await res.json()` otherwise
FetchSettle(r, o) ==
    /\ r \in inflight /\ r.phase = "fetch"
    /\ serverUp = ~Failed(o)
    /\ IF awaitsJson(o)
       THEN /\ inflight' = (inflight \ {r}) \cup {[r EXCEPT !.phase = "json", !.o = o]}
            /\ UNCHANGED << provider, env, comp, mounts, rendered, timers, observers,
                            windowListeners, serverMetrics, issued, settled, escaped,
                            serverUp, display, hmr >>
       ELSE Completes(r, o)

\* res.json() settles and the callback resumes a second time, whatever the
\* server does by then
JsonSettle(r) ==
    /\ r \in inflight /\ r.phase = "json"
    /\ Completes(r, r.o)

\* the polling callback of request r finishes here with outcome o
PollSettle(r, o) ==
    \/ FetchSettle(r, o) /\ ~awaitsJson(o)
    \/ JsonSettle(r) /\ o = r.o

\* a page of any template and dev flag, next to a running dev server
InitConsumer ==
    /\ ctx = [tool |-> "vite", config |-> CHOOSE c \in ViteConfigs("serve") : c.httpServer,
              project |-> CHOOSE q \in Projects : ~ReadOk(q.pkg),
              proc |-> CHOOSE q \in Processes : q.bun = ""]
    /\ Fresh
    /\ env \in Envs
    /\ serverUp \in BOOLEAN
    /\ Unmounted

NextConsumer ==
    \/ Mount
    \/ Unmount
    \/ PollTick
    \/ EndpointChanges
    \/ \E r \in inflight, o \in Outcomes : FetchSettle(r, o)
    \/ \E r \in inflight : JsonSettle(r)

\* a page of any template and dev flag whose browser has both observer
\* entry types: polling reads neither observer
InitPolling == InitConsumer /\ env.perfObserver

SpecConsumer == InitPolling /\ [][NextConsumer]_vars

\* polling by a component that, once mounted, stays mounted
NextPolling ==
    \/ Mount
    \/ PollTick
    \/ EndpointChanges
    \/ \E r \in inflight, o \in Outcomes : FetchSettle(r, o)
    \/ \E r \in inflight : JsonSettle(r)

\* the interval timer fires while it is set, every fetch settles and every
\* body is read to its end
SpecConsumerLive ==
    /\ InitPolling
    /\ [][NextPolling]_vars
    /\ WF_vars(PollTick)
    /\ WF_vars(\E r \in inflight, o \in Outcomes : FetchSettle(r, o))
    /\ WF_vars(\E r \in inflight : JsonSettle(r))

(* ------------------------ the overlay's controls ----------------------- *)
\* Ctrl+Shift+H: the keydown listener of the mounted component toggles
\* `visible`; the overlay is in the document when it is visible and the
\* template's dev guard lets it render
KeyDown ==
    /\ comp = "mounted" /\ windowListeners.keydown > 0
    /\ rendered' = (renders(env) /\ ~rendered)
    /\ UNCHANGED << provider, env, comp, mounts, timers, observers, windowListeners,
                    serverMetrics, issued, inflight, settled, escaped, serverUp, display, hmr >>

\* the close button of the rendered overlay: visible = false
CloseButton ==
    /\ comp = "mounted" /\ rendered
    /\ rendered' = FALSE
    /\ UNCHANGED << provider, env, comp, mounts, timers, observers, windowListeners,
                    serverMetrics, issued, inflight, settled, escaped, serverUp, display, hmr >>

\* mousedown on the header of the rendered overlay: onDragStart, whether or
\* not a mouseup has followed the mousedown before
DragStart ==
    /\ comp = "mounted" /\ rendered
    /\ Plus(windowListeners, dragListeners(env, dragging)).mouseup <= MaxDragListeners
    /\ dragging' = TRUE
    /\ windowListeners' = Plus(windowListeners, dragListeners(env, dragging))
    /\ UNCHANGED << provider, env, comp, mounts, rendered, timers, observers,
                    serverMetrics, issued, inflight, settled, escaped, serverUp, display,
                    hotHandlers, hmrState >>

\* mouseup on window: its listeners run, those left by an unmounted
\* component included
MouseUp ==
    /\ windowListeners.mouseup > 0
    /\ dragging' = FALSE
    /\ windowListeners' = afterMouseUp(env, windowListeners)
    /\ UNCHANGED << provider, env, comp, mounts, rendered, timers, observers,
                    serverMetrics, issued, inflight, settled, escaped, serverUp, display,
                    hotHandlers, hmrState >>

NextOverlay ==
    \/ Mount
    \/ Unmount
    \/ KeyDown
    \/ CloseButton
    \/ DragStart
    \/ MouseUp

SpecOverlay == InitConsumer /\ [][NextOverlay]_vars

(* ----------------------------- HMR tracking ---------------------------- *)
\* the HMR effect of the mounted component runs again (React runs every
\* effect twice under StrictMode in development): it has no cleanup for its
\* handlers and registers another set
HmrEffectRerun ==
    /\ comp = "mounted" /\ env.template = "react"
    /\ hotHandlers.live \in 1..MaxReruns
    /\ hotHandlers' = [hotHandlers EXCEPT !.live = @ + registered(env)]
    /\ UNCHANGED << provider, env, comp, mounts, rendered, timers, observers, windowListeners,
                    serverMetrics, issued, inflight, settled, escaped, serverUp, display,
                    hmrState, dragging >>

\* the HMR client emits vite:error or vite:beforeFullReload: every handler
\* registered for the event runs; those of the mounted component increment
\* the count it displays
HmrEvent(field) ==
    /\ hotHandlers.live + hotHandlers.stale > 0
    /\ hmrState[field] < MaxHmrCount
    /\ hmrState' = [hmrState EXCEPT ![field] = @ + hotHandlers.live]
    /\ UNCHANGED << provider, env, comp, mounts, rendered, timers, observers, windowListeners,
                    serverMetrics, issued, inflight, settled, escaped, serverUp, display,
                    hotHandlers, dragging >>

NextHmr ==
    \/ Mount
    \/ Unmount
    \/ HmrEffectRerun
    \/ \E field \in {"errorCount", "fullReloadCount"} : HmrEvent(field)

SpecHmr == InitConsumer /\ [][NextHmr]_vars

(* ------------------------------ properties ----------------------------- *)
\* the request just handled was answered with the diagnostics JSON body
HudResponse == response.kind = "response" /\ response.res.body # NoBody

\* a response of the endpoint as the interface describes it
IsDiagnosticsResponse(r) ==
    /\ r.res.statusCode = 200
    /\ r.res.ended
    /\ Get(r.res.headers, "Content-Type") = "application/json"
    /\ Get(r.res.headers, "Cache-Control") = "no-store"
    /\ r.res.body # NoBody
    /\ DOMAIN r.res.body = {"moduleCount", "openConnections", "errorCount", "uptime"}
    /\ r.nextCalls = 0

\* C1: when the development signal is false, no request to /__hud is answered
\* with the diagnostics JSON body (the endpoint is unreachable).
C1_EndpointUnreachableOutsideDev == HudResponse => IsDev

\* the field values of an all-empty snapshot of the Vite plugin
IsEmptyViteSnapshot(d) ==
    /\ DOMAIN d = { "framework", "frameworkVersion", "viteVersion", "nodeVersion", "runtime",
                    "runtimeVersion", "packageManager", "port", "host", "https", "base",
                    "mode", "envPrefix", "plugins", "cliFlags", "moduleCount",
                    "resolvedAliases" }
    /\ d.framework = "" /\ d.frameworkVersion = <<>> /\ d.viteVersion = ""
    /\ d.nodeVersion = "" /\ d.runtime = "" /\ d.runtimeVersion = ""
    /\ d.packageManager = "" /\ d.port = 0 /\ d.host = "" /\ d.https = FALSE
    /\ d.base = "/" /\ d.mode = "production" /\ d.envPrefix = <<>> /\ d.plugins = <<>>
    /\ d.cliFlags = <<>> /\ d.moduleCount = 0 /\ d.resolvedAliases = EmptyObject

\* C2: in the Vite plugin with a command other than 'serve', every load of the
\* virtual module exports the empty snapshot, whatever configResolved computed;
\* the empty snapshot has the fields of the development snapshot, each empty.
C2_BuildLoadsEmptySnapshot ==
    /\ (ctx.tool = "vite" /\ ctx.config.command # "serve" /\ loaded.kind = "module")
          => (loaded.export = EMPTY_DIAGNOSTICS /\ IsEmptyViteSnapshot(loaded.export))
    /\ (ctx.tool = "vite" /\ diagnostics # Undefined)
          => DOMAIN diagnostics = DOMAIN EMPTY_DIAGNOSTICS

\* C2 witness: a build whose configResolved computed a non-empty snapshot has
\* loaded the virtual module
C2_Witness ==
    /\ ctx.tool = "vite" /\ ctx.config.command = "build"
    /\ diagnostics # Undefined /\ diagnostics # EMPTY_DIAGNOSTICS
    /\ loaded.kind = "module"

\* C3: in a non-development Webpack build the static channel __HUD_DIAGNOSTICS__
\* is defined (an all-empty object), not absent, once the plugin was applied.
C3_WebpackChannelDefinedOutsideDev ==
    (ctx.tool = "webpack" /\ ~IsDev /\ calls.apply > 0) => HUD_DIAGNOSTICS # Undefined

\* C4: with a production/build signal the provider does no work: no file is
\* read, no snapshot is computed, no hook, listener or timer is registered.
C4_NoWorkOutsideDev ==
    ~IsDev =>
        /\ reads = {}
        /\ diagnostics = Undefined /\ HUD_DIAGNOSTICS = Undefined
        /\ intervals = 0 /\ closeListeners = 0 /\ taps = 0
        /\ wsListeners = [connection |-> 0, error |-> 0]

\* C5: a request whose URL is not exactly '/__hud' gets no header and no body
\* from the endpoint, and each middleware it reaches calls next() exactly once.
C5_OtherUrlsPassThrough ==
    (response.kind = "response" /\ response.url # HUD_URL) =>
        /\ response.res = newResponse
        /\ response.invoked = mounted
        /\ response.nextCalls = response.invoked

\* C5 witness: a request for /__hud with a query string went through a mounted
\* middleware
C5_Witness ==
    /\ response.kind = "response" /\ response.url = HUD_URL \o <<"?", "t=1">>
    /\ response.invoked >= 1

\* C6: every request whose path is /__hud, with or without a query string,
\* is answered 200 with the JSON headers and the four counters, without next().
C6_HudPathAlwaysAnswered ==
    (response.kind = "response" /\ mounted > 0 /\ PathOf(response.url) = HUD_URL)
        => IsDiagnosticsResponse(response)

\* the moduleCount a request to /__hud reports
ReportedModuleCount == response.res.body.moduleCount

\* C7: in development, a request issued after the last module-graph-changed
\* event reports the count of that event (the last value, not a sum and not
\* an earlier value), in the Vite plugin and in the Webpack plugin.
C7_ReportsLastChange ==
    (HudResponse /\ IsDev /\ lastChange # NoCount) => ReportedModuleCount = lastChange

\* C7, what the plugins do report: the count the plugin was last handed (the
\* last compilation-done count in Webpack, the graph size sampled by the last
\* 2-second tick in Vite; 0 before any), never a sum or an earlier count; in a
\* Webpack development build that has not failed every compilation-done
\* count is handed over.
C7_ReportsLastObservedCount ==
    /\ HudResponse => ReportedModuleCount = (IF lastCount = NoCount THEN 0 ELSE lastCount)
    /\ (ctx.tool = "webpack" /\ IsDev /\ ~crashed) => lastCount = lastChange

\* C7: a request reported the size the last tick had sampled after the module
\* graph had changed to another size since
C7_StaleCountReported ==
    /\ HudResponse /\ lastCount = 1 /\ ReportedModuleCount = 1
    /\ ctx.tool = "vite" /\ lastChange = 2

\* C8: in the Vite plugin, once configureServer has been called (once), the
\* errorCount the endpoint reports equals the number of error events, whatever
\* the interleaving with connections, ticks and requests.
C8_ErrorCountIsNumberOfErrors ==
    (ctx.tool = "vite" /\ calls.configureServer = 1) =>
        /\ errorCount = events.error
        /\ HudResponse => response.res.body.errorCount = events.error

\* C8 witness: a request reported the errors after two error events and a
\* connection event
C8_Witness ==
    /\ ctx.tool = "vite" /\ HudResponse
    /\ events.error >= 2 /\ events.connection >= 1 /\ lastCount # NoCount
    /\ response.res.body.errorCount = events.error

\* the errorCount and uptime a request to /__hud would report now
ReportedNow == middleware(HUD_URL, newResponse).res.body

\* C9: in the Webpack plugin the errorCount the endpoint reports never
\* decreases, whatever the compilations report.
C9_WebpackErrorCountNeverDecreases ==
    [][ctx.tool = "webpack" => ReportedNow'.errorCount >= ReportedNow.errorCount]_vars

\* C10: a request handled at time T reports u = floor((T - startedAt)/1000),
\* startedAt being the time captured at start and never changed; the reported
\* uptime is non-negative and never decreases (the clock does not).
C10_UptimeIsWholeSecondsSinceStart ==
    /\ [](/\ startTime = BootTime
          /\ HudResponse =>
                /\ response.res.body.uptime >= 0
                /\ response.res.body.uptime * 1000 <= response.at - startTime
                /\ response.at - startTime < (response.res.body.uptime + 1) * 1000)
    /\ [][startTime' = startTime /\ ReportedNow'.uptime >= ReportedNow.uptime]_vars

\* C10 witness: both plugins aside, a request was answered at least two
\* seconds after a start that was not the epoch
C10_Witness ==
    /\ HudResponse /\ startTime > 0
    /\ response.at - startTime >= 2000 /\ response.res.body.uptime = 2

\* C11: every poll returns the counters as they stand: 0, 0, 0 with no prior
\* event; the count of the last module-graph-changed event (40 after 10, 25,
\* 40); the number of error events so far (2 after 2 error events).
C11_PollReturnsCurrentCounters ==
    (HudResponse /\ IsDev) =>
        /\ ReportedModuleCount = (IF lastChange = NoCount THEN 0 ELSE lastChange)
        /\ response.res.body.openConnections =
              (IF ctx.tool = "vite" THEN events.connection ELSE 0)
        /\ response.res.body.errorCount = events.error

\* C11, the Webpack plugin alone: the same statement where every event is a
\* compilation-done event
C11_WebpackPollReturnsCurrentCounters ==
    ctx.tool = "webpack" => C11_PollReturnsCurrentCounters

(* ---------------------- properties of the snapshot --------------------- *)
\* the documented priority of lockfiles, written out
FirstPresentManager(lockfiles) ==
    IF "bun.lockb" \in lockfiles THEN "bun"
    ELSE IF "yarn.lock" \in lockfiles THEN "yarn"
    ELSE IF "pnpm-lock.yaml" \in lockfiles THEN "pnpm"
    ELSE "npm"

\* C12: for every combination of the four lockfiles the snapshot's package
\* manager is the manager of the first present file in the order bun, yarn,
\* pnpm, npm, and 'npm' when none is present; the Vite and the Webpack
\* detectPackageManager return the same result.
C12_PackageManagerByPriority ==
    /\ SnapshotCreated =>
          StaticChannel.packageManager = FirstPresentManager(ctx.project.lockfiles)
    /\ detectPackageManager(ctx.project.lockfiles)
          = detectPackageManager_webpack(ctx.project.lockfiles)

\* C12: a snapshot created where yarn.lock, pnpm-lock.yaml and
\* package-lock.json are present and bun.lockb is not
C12_Witness ==
    /\ SnapshotCreated
    /\ ctx.project.lockfiles = {"yarn.lock", "pnpm-lock.yaml", "package-lock.json"}
    /\ StaticChannel.packageManager = "yarn"

\* the precedence of framework markers the two plugins document, highest first
VitePrecedence ==
    << [marker |-> "@sveltejs/kit", name |-> "sveltekit"], [marker |-> "nuxt", name |-> "nuxt"],
       [marker |-> "next", name |-> "nextjs"], [marker |-> "vue", name |-> "vue"],
       [marker |-> "react", name |-> "react"] >>
WebpackPrecedence ==
    << [marker |-> "react-scripts", name |-> "cra"], [marker |-> "next", name |-> "nextjs"],
       [marker |-> "react", name |-> "react"], [marker |-> "vue", name |-> "vue"] >>
Precedence == IF ctx.tool = "vite" THEN VitePrecedence ELSE WebpackPrecedence

\* the packages a manifest declares: the keys of dependencies and devDependencies
Declared(pkg) ==
    IF ReadOk(pkg) THEN DOMAIN pkg.dependencies \cup DOMAIN pkg.devDependencies ELSE {}

\* the packages a manifest declares with a truthy version value
DeclaredTruthy(pkg) ==
    IF ReadOk(pkg)
    THEN { m \in Declared(pkg) :
             Truthy(Spread(pkg.dependencies, pkg.devDependencies)[m]) }
    ELSE {}

\* the markers of the running plugin that are in a set of packages
MarkersIn(packages) ==
    { i \in DOMAIN Precedence : Precedence[i].marker \in packages }

\* the name of the highest-precedence marker in a non-empty set of indices
Highest(indices) == Precedence[CHOOSE i \in indices : \A j \in indices : i <= j].name

\* C13: for every set of packages declared in dependencies and
\* devDependencies, the framework of the snapshot is the highest-precedence
\* marker among the declared packages.
C13_HighestPrecedenceDeclaredMarker ==
    (SnapshotCreated /\ MarkersIn(Declared(ctx.project.pkg)) # {}) =>
        StaticChannel.framework = Highest(MarkersIn(Declared(ctx.project.pkg)))

\* C13, as the code has it: the highest-precedence marker among the packages
\* declared with a truthy version value
C13_HighestPrecedenceTruthyMarker ==
    (SnapshotCreated /\ MarkersIn(DeclaredTruthy(ctx.project.pkg)) # {}) =>
        StaticChannel.framework = Highest(MarkersIn(DeclaredTruthy(ctx.project.pkg)))

\* the snapshot hook of the running plugin has been called
SnapshotHookCalled ==
    IF ctx.tool = "vite" THEN calls.configResolved > 0 ELSE calls.apply > 0

\* C14: whatever the project files hold (manifest missing, unparsable, or
\* parsed with any values, non-string and empty versions included),
\* configResolved and apply complete without throwing, and the framework
\* version holds its sentinel when no version is detected.
C14_SnapshotCreationFailsSoft ==
    SnapshotHookCalled =>
        /\ ~crashed
        /\ SnapshotCreated
        /\ MarkersIn(DeclaredTruthy(ctx.project.pkg)) = {} =>
              StaticChannel.frameworkVersion = Sentinel

\* C15: with no known marker in the manifest, or a manifest that cannot be
\* read or parsed, the snapshot's framework is "unknown" and its framework
\* version is "--".
C15_UnknownFrameworkFallback ==
    (SnapshotCreated /\ MarkersIn(DeclaredTruthy(ctx.project.pkg)) = {}) =>
        /\ StaticChannel.framework = "unknown"
        /\ StaticChannel.frameworkVersion = Sentinel

\* C15, as the code has it: the fallback framework is the build tool's name
C15_BuildToolFallback ==
    (SnapshotCreated /\ MarkersIn(DeclaredTruthy(ctx.project.pkg)) = {}) =>
        /\ StaticChannel.framework = ctx.tool
        /\ StaticChannel.frameworkVersion = Sentinel

\* C16: once the static snapshot has been created, no step (a repeated
\* configResolved included) changes what the static channel returns.
C16_SnapshotImmutableAfterCreation ==
    [][SnapshotCreated => StaticChannel' = StaticChannel]_vars

(* ---------------------- properties of the consumer --------------------- *)
\* C17: in every template, a poll that fails (fetch rejects, the response is
\* not ok, or the body does not parse) leaves the displayed server metrics as
\* they were and lets no error out of the polling callback.
C17_FailedPollKeepsMetrics ==
    [][\A r \in inflight, o \in Outcomes :
          (PollSettle(r, o) /\ Failed(o)) =>
              (serverMetrics' = serverMetrics /\ escaped' = FALSE)]_vars

\* C17: a poll has failed after an earlier one succeeded, and the overlay
\* still displays the metrics of the successful one
C17_Witness ==
    /\ comp = "mounted"
    /\ settled # NoOutcome /\ Failed(settled)
    /\ serverMetrics \in MetricsBodies
    /\ ~escaped

\* C18: after teardown no interval of the component is left running (the
\* /__hud poll and every other one) and neither performance observer is
\* connected, for every sequence of mounts and teardowns.
C18_TeardownReleasesTimersAndObservers ==
    comp = "unmounted" => (timers = NoTimers /\ observers = NoObservers)

\* C18: the component has been torn down for the second time, in a dev page
\* where its mounts had started the intervals and connected both observers
C18_Witness ==
    /\ comp = "unmounted" /\ mounts = 2
    /\ env.dev /\ env.perfObserver
    /\ timers = NoTimers /\ observers = NoObservers

\* C19: where the dev flag is false, a mounted component renders no overlay
\* and starts no /__hud polling, no other timer and no listener.
C19_NothingStartsOutsideDev ==
    (~env.dev /\ comp = "mounted") =>
        /\ ~rendered
        /\ timers = NoTimers
        /\ windowListeners = NoListeners
        /\ inflight = {}

\* C19, the React template alone
C19_ReactStartsNothingOutsideDev ==
    env.template = "react" => C19_NothingStartsOutsideDev

\* C20: at most one /__hud request is outstanding at any time.
C20_AtMostOneOutstandingRequest == Cardinality(inflight) <= 1

(* ------------------- properties of the live counters ------------------- *)
\* C22: in the Vite plugin, once configureServer has been called once, the
\* openConnections the endpoint reports equals the number of connection
\* events so far, and no step (error, close, tick, request) lowers it.
C22_OpenConnectionsCountsConnections ==
    /\ []((ctx.tool = "vite" /\ calls.configureServer = 1) =>
             /\ ReportedNow.openConnections = events.connection
             /\ HudResponse => response.res.body.openConnections = events.connection)
    /\ [][(ctx.tool = "vite" /\ calls.configureServer = 1) =>
             ReportedNow'.openConnections >= ReportedNow.openConnections]_vars

\* C22: the endpoint reports two connections after two connection events and
\* an error event
C22_Witness ==
    /\ ctx.tool = "vite" /\ calls.configureServer = 1
    /\ events.connection = 2 /\ events.error >= 1
    /\ ReportedNow.openConnections = 2

\* a request is handled, by either dev server
RequestHandled == \E url \in Urls : ViteRequest(url) \/ WebpackRequest(url)

\* C24: handling a request, to /__hud or to another URL, leaves moduleCount,
\* openConnections, errorCount and the start time unchanged, in both plugins.
C24_RequestsLeaveCountersUnchanged ==
    [][RequestHandled => UNCHANGED counters]_vars

\* C24: /__hud has been answered by a server whose counters are all non-zero
C24_Witness ==
    /\ HudResponse
    /\ moduleCount > 0 /\ errorCount > 0 /\ startTime > 0
    /\ (ctx.tool = "vite" => openConnections > 0)

\* C28: once the Vite dev server has closed, no module-count timer started
\* by configureServer is left running, whatever the server configuration.
C28_IntervalReleasedOnClose ==
    (ctx.tool = "vite" /\ closed) => intervals = 0

\* C28, for a server that has an http server
C28_IntervalReleasedOnHttpServerClose ==
    (ctx.tool = "vite" /\ closed /\ ctx.config.httpServer) => intervals = 0

\* C23: after configureServer has been invoked twice on the same plugin
\* instance with the same server, every connection event raises
\* openConnections by 2 and every error event raises errorCount by 2.
C23_SecondRegistrationDoubleCounts ==
    [][calls.configureServer = 2 =>
          /\ WsConnection => openConnections' = openConnections + 2
          /\ WsError => errorCount' = errorCount + 2]_vars

\* C23: one connection event and one error event after the second
\* configureServer have each been counted twice
C23_Witness ==
    /\ calls.configureServer = 2
    /\ events = [connection |-> 1, error |-> 1]
    /\ openConnections = 2 /\ errorCount = 2

\* two runs of the snapshot computation against the same project files,
\* configuration and process values
SameInputs(i, j) == computations[i].from = computations[j].from

\* C25: the snapshot computation is idempotent and does not touch the live
\* counters: any two runs of it against the same project files, configuration
\* and process arguments yield equal snapshots, whatever the counters were at
\* either run, and every run (configResolved in the Vite plugin, apply in the
\* Webpack plugin) leaves moduleCount, openConnections, errorCount and the
\* start time unchanged.
C25_SnapshotComputationIdempotent ==
    [][/\ SnapshotComputation => UNCHANGED counters
       /\ \A i, j \in 1..Len(computations') :
             (computations'[i].from = computations'[j].from)
                => computations'[i].snapshot = computations'[j].snapshot]_vars

\* C25: the Webpack plugin has computed its snapshot twice against the same
\* inputs, the second time after compilations had changed the counters
C25_Witness ==
    /\ ctx.tool = "webpack" /\ calls.apply = 2
    /\ Len(computations) = 2 /\ SameInputs(1, 2)
    /\ ~computations[1].busy /\ computations[2].busy
    /\ moduleCount > 0 /\ errorCount > 0
    /\ HUD_DIAGNOSTICS = computations[1].snapshot

\* C25, the Vite plugin: configResolved has computed its snapshot twice
\* against the same inputs, the second time on a server whose ticks and
\* websocket events had changed the counters
C25_ViteWitness ==
    /\ ctx.tool = "vite" /\ calls.configResolved = 2
    /\ Len(computations) = 2 /\ SameInputs(1, 2)
    /\ ~computations[1].busy /\ computations[2].busy
    /\ moduleCount > 0 /\ errorCount > 0
    /\ diagnostics = computations[1].snapshot

\* C25: the project files changed between two runs, and the snapshots differ
C25_ChangedInputsWitness ==
    /\ Len(computations) = 2 /\ ~SameInputs(1, 2)
    /\ computations[1].snapshot # computations[2].snapshot

(* ------------------ properties of listeners and handlers --------------- *)
\* C29: in the Vue consumer, whatever the mounts and unmounts, no window
\* listener (keydown, mousemove, mouseup, popstate) of an unmounted instance
\* remains registered.
C29_VueListenersRemovedOnUnmount ==
    (env.template = "vue" /\ comp = "unmounted") => windowListeners = NoListeners

\* C29, the listeners onUnmounted has a reference to
C29_VueNamedListenersRemovedOnUnmount ==
    (env.template = "vue" /\ comp = "unmounted") =>
        [windowListeners EXCEPT !.popstate = 0] = NoListeners


\* a poll of the mounted component has failed, the endpoint answers again
\* and n requests have been issued so far
FailedPollThenAnswering(n) ==
    /\ comp = "mounted"
    /\ settled # NoOutcome /\ Failed(settled)
    /\ serverUp
    /\ issued = n

\* C21: a failed poll neither stops nor reschedules polling: the callback
\* that handles a failed poll issues no request and leaves the interval as
\* it is, every interval tick issues exactly one new request, and once the
\* endpoint answers again after a failed poll the overlay comes to display
\* the response of a request issued after that, unless the component is
\* unmounted or the endpoint stops answering first.
C21_FailedPollWaitsForNextTick ==
    /\ [][/\ \A r \in inflight, o \in Outcomes :
                (PollSettle(r, o) /\ Failed(o)) =>
                    /\ issued' = issued
                    /\ inflight' = inflight \ {r}
                    /\ timers' = timers
          /\ \A q \in inflight, b \in Outcomes :
                (FetchSettle(q, b) /\ awaitsJson(b)) =>
                    /\ issued' = issued
                    /\ {x.id : x \in inflight'} = {x.id : x \in inflight}
                    /\ timers' = timers
          /\ PollTick =>
                /\ issued' = issued + 1
                /\ Cardinality(inflight') = Cardinality(inflight) + 1]_vars
    /\ \A n \in 0..(MaxPolls - 1) :
          FailedPollThenAnswering(n) ~>
              (display.shown > n \/ comp = "unmounted" \/ ~serverUp)

\* C21: a poll has failed while the overlay displays an earlier response,
\* the interval is still set and the endpoint answers again
C21_Witness ==
    /\ \E n \in 1..(MaxPolls - 1) : FailedPollThenAnswering(n)
    /\ timers.poll > 0
    /\ display.shown > 0
    /\ serverMetrics \in MetricsBodies


\* C30: after any sequence of mounts, unmounts and re-runs of the HMR
\* effect, one vite:error event raises the displayed HMR error count of the
\* mounted component by exactly 1 and one vite:beforeFullReload event raises
\* its reload count by exactly 1, and no handler of a torn-down effect is
\* left to fire.
C30_HmrEventCountedOnce ==
    /\ [][\A field \in {"errorCount", "fullReloadCount"} :
             (HmrEvent(field) /\ comp = "mounted") =>
                 hmrState'[field] = hmrState[field] + 1]_vars
    /\ [](hotHandlers.stale = 0)

\* C30: an event raises the count of the mounted component once for every run
\* of its HMR effect
C30_HmrEventCountedPerEffectRun ==
    [][\A field \in {"errorCount", "fullReloadCount"} :
          (HmrEvent(field) /\ comp = "mounted") =>
              hmrState'[field] = hmrState[field] + hotHandlers.live]_vars


\* C27: for every interleaving of poll requests and responses, the metrics
\* the mounted component displays are those of the most recently issued poll
\* that has succeeded: the response to an earlier poll never replaces the
\* values of a later one.
C27_DisplaysNewestSuccessfulPoll ==
    comp = "mounted" => display.shown = display.newest

\* C27: the overlay displays the response of a poll of the mounted component
\* that has succeeded
C27_DisplaysSomeSuccessfulPoll ==
    comp = "mounted" =>
        /\ display.shown <= display.newest
        /\ display.newest <= issued
        /\ display.shown \notin {r.id : r \in inflight}
        /\ (display.shown = 0) = (display.newest = 0)


\* C26: the live counters have a single owner: an event delivered to one
\* plugin instance never changes the values the endpoint of another instance
\* in the same process reports (two hudPlugin() instances; two
\* HudWebpackPlugin instances on two compilers, a hudDevServerMiddleware each).
C26_CountersHaveSingleOwner ==
    [][/\ PeerEvent => ReportedNow' = ReportedNow
       /\ (OwnEvent /\ peer.created) => PeerReported' = PeerReported]_vars

\* C26: the counters of two hudPlugin() instances are those of two closures
C26_ViteCountersHaveSingleOwner ==
    [][ctx.tool = "vite" =>
          /\ PeerEvent => ReportedNow' = ReportedNow
          /\ (OwnEvent /\ peer.created) => PeerReported' = PeerReported]_vars

====
